---- MODULE Spec2Model ----
(***************************************************************************)
(* Model of mdarray's dense CPU tensor: src/native/cpu/tensor.rs.          *)
(* A Tensor<T> is a flat buffer `data` plus a `shape` kept in a            *)
(* SmallVec<[usize; 5]>.  Factory (fill / zeros / ones) builds tensors,    *)
(* Dimension (shape / numel / size) reads them.  usize arithmetic is kept  *)
(* at a scaled-down word width; an overflowing multiplication panics when  *)
(* the crate is built with overflow checks and wraps otherwise.            *)
(***************************************************************************)
EXTENDS Integers, Sequences, FiniteSets, TLC

VARIABLES overflow_checks, pc, arrays, hist, ret

vars == <<overflow_checks, pc, arrays, hist, ret>>

(* ---------------- bounds of the model ---------------- *)
\* width in bits of usize (64 on the real targets, scaled down here)
WordBits == 6
\* longest shape for which every sequence of Extents is enumerated
ShortRank == 3
\* longest shape at all (past the inline capacity of the shape storage)
MaxRank == 6
\* number of tensors a client keeps alive at once in SpecFrame
MaxArrays == 2

(* ---------------- program constants ---------------- *)
\* SmallVec<[usize; 5]>: number of extents stored inline
INLINE_CAP == 5
\* size_of::<T>() of the aliased element types f32/i32/u32 and f64/i64/u64
ByteWidths == {4, 8}
\* T::zero() and T::one() of num_traits for the integer element types
zero == 0
one == 1

Word == 2 ^ WordBits
\* isize::MAX, the largest byte length Vec accepts
IsizeMax == (Word \div 2) - 1
\* result of an overflowing multiplication under overflow checks
PANIC == -1

(* ---------------- inputs ---------------- *)
Values == {0, 1, 5}
Extents == {0, 2, 3, Word \div 2, Word - 1}

SeqsOfLen(S, n) == [1..n -> S]
Ones1(n) == [i \in 1..n |-> 1]
ShortShapes == UNION {SeqsOfLen(Extents, n) : n \in 0..ShortRank}
\* high-rank shapes: two free extents at the front or at the back, 1 elsewhere
LongShapes ==
    UNION {{p \o Ones1(r - 2) : p \in SeqsOfLen(Extents, 2)}
           \cup {Ones1(r - 2) \o p : p \in SeqsOfLen(Extents, 2)}
           : r \in (ShortRank + 1)..MaxRank}
Shapes == ShortShapes \cup LongShapes
\* the shapes used when several tensors are kept alive together
FrameShapes == {<<2>>, <<0, 3>>, <<Word - 1, Word - 1>>}
FrameValues == {5}

(* ---------------- usize arithmetic ---------------- *)
\* a * b on usize: panics under overflow checks, wraps otherwise
mul(a, b) ==
    IF a = PANIC \/ b = PANIC THEN PANIC
    ELSE IF a * b >= Word
         THEN (IF overflow_checks THEN PANIC ELSE (a * b) % Word)
         ELSE a * b

RECURSIVE fold_mul(_, _, _)
fold_mul(s, i, acc) ==
    IF i > Len(s) THEN acc ELSE fold_mul(s, i + 1, mul(acc, s[i]))

\* the fold started from the additive instead of the multiplicative identity
product_from_zero(s) == fold_mul(s, 1, 0)

\* Iterator::product over usize: fold(1, |a, b| a * b), left to right
product(s) == fold_mul(s, 1, 1)

(* ---------------- shape storage ---------------- *)
\* a storage that keeps the inline part only and never spills
SmallVec_from_inline_only(s) ==
    [spilled |-> FALSE,
     inline |-> SubSeq(s, 1, IF Len(s) <= INLINE_CAP THEN Len(s) ELSE INLINE_CAP),
     heap |-> <<>>]

\* SmallVec::from(&[usize]): inline up to INLINE_CAP items, on the heap past it
SmallVec_from(s) ==
    IF Len(s) <= INLINE_CAP
    THEN [spilled |-> FALSE, inline |-> s, heap |-> <<>>]
    ELSE [spilled |-> TRUE, inline |-> <<>>, heap |-> s]

\* Deref of SmallVec to a slice
as_slice(sv) == IF sv.spilled THEN sv.heap ELSE sv.inline

(* ---------------- Factory ---------------- *)
\* outcome of a call that may panic: Ok(val) or the unwinding panic
Ok(v) == [ok |-> TRUE, val |-> v]
Panicked == [ok |-> FALSE, val |-> <<>>]

\* an allocation that skips the check of the byte length
vec_from_elem_unchecked(value, n, w) == Ok([i \in 1..n |-> value])

\* vec![value; n] for elements of w bytes: capacity overflow past isize::MAX
vec_from_elem(value, n, w) ==
    IF n * w > IsizeMax THEN Panicked ELSE Ok([i \in 1..n |-> value])

\* Tensor::fill; Panicked when the product or the allocation panics
fill(value, shape, w) ==
    LET numel_ == product(shape)
        data == IF numel_ = PANIC THEN Panicked ELSE vec_from_elem(value, numel_, w)
    IN  IF ~data.ok THEN Panicked
        ELSE Ok([data |-> data.val, shape |-> SmallVec_from(shape), width |-> w])

zeros(shape, w) == fill(zero, shape, w)

ones(shape, w) == fill(one, shape, w)

(* ---------------- Dimension ---------------- *)
shape(t) == as_slice(t.shape)

numel(t) == product(as_slice(t.shape))

size(t) == mul(numel(t), t.width)

(* ---------------- state ---------------- *)
Factories == {"fill", "zeros", "ones"}
Accessors == {"shape", "numel", "size"}

NoRet == [op |-> "none", value |-> 0, shape |-> <<>>, width |-> 0, idx |-> 0,
          ok |-> TRUE, out_shape |-> <<>>, out_int |-> 0]

\* what is remembered of a tensor: the call that built it, each accessor's first result
NewHist(op, v, s) ==
    [op |-> op, value |-> v, in_shape |-> s,
     has_shape |-> FALSE, first_shape |-> <<>>,
     has_numel |-> FALSE, first_numel |-> 0,
     has_size |-> FALSE, first_size |-> 0]

Init ==
    /\ overflow_checks \in BOOLEAN
    /\ pc = "running"
    /\ arrays = <<>>
    /\ hist = <<>>
    /\ ret = NoRet

\* keep: the client keeps its earlier tensors alive, otherwise it builds a
\* tensor only once the previous one is gone.  FactoryCall: a factory call
\* whose outcome is `t`.
\* A panic is fatal: it unwinds the client and drops every tensor it owned.
CanBuild(keep) ==
    /\ pc = "running"
    /\ IF keep THEN Len(arrays) < MaxArrays ELSE arrays = <<>>

FactoryCall(op, v, s, w, t) ==
    /\ IF ~t.ok
       THEN /\ pc' = "panicked"
            /\ ret' = [NoRet EXCEPT !.op = op, !.value = v, !.shape = s,
                                    !.width = w, !.ok = FALSE]
            /\ arrays' = <<>>
            /\ hist' = <<>>
       ELSE /\ arrays' = Append(arrays, t.val)
            /\ hist' = Append(hist, NewHist(op, v, s))
            /\ ret' = [NoRet EXCEPT !.op = op, !.value = v, !.shape = s,
                                    !.width = w, !.idx = Len(arrays')]
            /\ pc' = "running"
    /\ UNCHANGED overflow_checks

Fill(SS, VV, keep) ==
    /\ CanBuild(keep)
    /\ \E v \in VV, s \in SS, w \in ByteWidths :
        FactoryCall("fill", v, s, w, fill(v, s, w))

Zeros(SS, keep) ==
    /\ CanBuild(keep)
    /\ \E s \in SS, w \in ByteWidths :
        FactoryCall("zeros", zero, s, w, zeros(s, w))

Ones(SS, keep) ==
    /\ CanBuild(keep)
    /\ \E s \in SS, w \in ByteWidths :
        FactoryCall("ones", one, s, w, ones(s, w))

Shape ==
    /\ pc = "running"
    /\ \E i \in 1..Len(arrays) :
        LET r == shape(arrays[i]) IN
        /\ ret' = [NoRet EXCEPT !.op = "shape", !.idx = i, !.out_shape = r,
                                !.shape = hist[i].in_shape, !.width = arrays[i].width]
        /\ hist' = IF hist[i].has_shape THEN hist
                   ELSE [hist EXCEPT ![i].has_shape = TRUE, ![i].first_shape = r]
    /\ UNCHANGED <<overflow_checks, pc, arrays>>

IntAccessor(op, i, r) ==
    /\ pc = "running"
    /\ IF r = PANIC
       THEN /\ pc' = "panicked"
            /\ ret' = [NoRet EXCEPT !.op = op, !.idx = i, !.ok = FALSE,
                                    !.shape = hist[i].in_shape, !.width = arrays[i].width]
            /\ hist' = <<>>
            /\ arrays' = <<>>
       ELSE /\ pc' = "running"
            /\ ret' = [NoRet EXCEPT !.op = op, !.idx = i, !.out_int = r,
                                    !.shape = hist[i].in_shape, !.width = arrays[i].width]
            /\ hist' =
                 IF op = "numel"
                 THEN (IF hist[i].has_numel THEN hist
                       ELSE [hist EXCEPT ![i].has_numel = TRUE, ![i].first_numel = r])
                 ELSE (IF hist[i].has_size THEN hist
                       ELSE [hist EXCEPT ![i].has_size = TRUE, ![i].first_size = r])
            /\ UNCHANGED arrays
    /\ UNCHANGED overflow_checks

Numel == \E i \in 1..Len(arrays) : IntAccessor("numel", i, numel(arrays[i]))

Size == \E i \in 1..Len(arrays) : IntAccessor("size", i, size(arrays[i]))

\* the owner's scope ends: every tensor is released (derived ownership teardown)
Drop ==
    /\ pc = "running"
    /\ arrays # <<>>
    /\ arrays' = <<>>
    /\ hist' = <<>>
    /\ ret' = NoRet
    /\ UNCHANGED <<overflow_checks, pc>>

\* a client that owns one tensor at a time, over the whole range of shapes
Next ==
    \/ Fill(Shapes, Values, FALSE)
    \/ Zeros(Shapes, FALSE)
    \/ Ones(Shapes, FALSE)
    \/ Shape
    \/ Numel
    \/ Size
    \/ Drop

Spec == Init /\ [][Next]_vars

\* a client that keeps up to MaxArrays tensors alive
NextFrame ==
    \/ Fill(FrameShapes, FrameValues, TRUE)
    \/ Shape
    \/ Numel
    \/ Size
    \/ Drop

SpecFrame == Init /\ [][NextFrame]_vars

(* ---------------- vocabulary of the properties ---------------- *)
RECURSIVE math_prod(_, _)
math_prod(s, i) == IF i > Len(s) THEN 1 ELSE s[i] * math_prod(s, i + 1)
\* the product of the extents as a mathematical integer
MathProduct(s) == math_prod(s, 1)

RECURSIVE sum_from(_, _)
sum_from(s, i) == IF i > Len(s) THEN 0 ELSE s[i] + sum_from(s, i + 1)
Sum(s) == sum_from(s, 1)

HasZero(s) == \E j \in 1..Len(s) : s[j] = 0
Live == 1..Len(arrays)
\* the last call was a factory call that returned a tensor, now arrays[ret.idx]
Returned == ret.op \in Factories /\ ret.ok
\* the last call was the accessor op and it returned
Answered(op) == ret.op = op /\ ret.ok

(* ---------------- properties ---------------- *)

\* C1: every tensor a factory returned has a buffer whose length is the
\* product of the requested shape, and numel() returns that same number.
C1_BufferLenIsProduct ==
    /\ \A i \in Live :
        /\ Len(arrays[i].data) = MathProduct(hist[i].in_shape)
        /\ hist[i].has_numel => hist[i].first_numel = MathProduct(hist[i].in_shape)
    /\ ret.op = "numel" => ret.ok /\ ret.out_int = MathProduct(ret.shape)

\* C2: shape() on a tensor built from shape S returns S itself: same length,
\* same values, same order, also past the inline capacity of the storage.
C2_ShapePreserved ==
    /\ \A i \in Live :
        /\ as_slice(arrays[i].shape) = hist[i].in_shape
        /\ hist[i].has_shape => hist[i].first_shape = hist[i].in_shape
    /\ Returned => as_slice(arrays[ret.idx].shape) = ret.shape
    /\ ret.op = "shape" => ret.ok /\ ret.out_shape = ret.shape

\* a shape() call answered with a shape of more than INLINE_CAP axes whose
\* last two extents differ
C2_Witness ==
    /\ Answered("shape")
    /\ Len(ret.out_shape) > INLINE_CAP
    /\ ret.out_shape[Len(ret.out_shape) - 1] = 2
    /\ ret.out_shape[Len(ret.out_shape)] = 3

\* C3: every element of fill(v, S) is v and the elements sum to v * product(S).
C3_FillSum ==
    \A i \in Live :
        hist[i].op = "fill" =>
            /\ \A k \in 1..Len(arrays[i].data) : arrays[i].data[k] = hist[i].value
            /\ Sum(arrays[i].data) = hist[i].value * MathProduct(hist[i].in_shape)

\* C4: zeros(S) is fill(0, S) and ones(S) is fill(1, S), buffer and shape;
\* the elements of zeros(S) sum to 0 and those of ones(S) to product(S).
C4_ZerosOnesAreFill ==
    /\ (ret.op = "zeros" /\ ret.ok) =>
            /\ arrays[ret.idx] = fill(0, ret.shape, ret.width).val
            /\ Sum(arrays[ret.idx].data) = 0
    /\ (ret.op = "ones" /\ ret.ok) =>
            /\ arrays[ret.idx] = fill(1, ret.shape, ret.width).val
            /\ Sum(arrays[ret.idx].data) = MathProduct(ret.shape)
    /\ (ret.op = "zeros" /\ ~ret.ok) => ~fill(0, ret.shape, ret.width).ok
    /\ (ret.op = "ones" /\ ~ret.ok) => ~fill(1, ret.shape, ret.width).ok

\* C5: size() returns numel() * byte width, which is product(S) * byte width.
C5_SizeIsProductTimesWidth ==
    /\ \A i \in Live :
        /\ hist[i].has_size =>
              hist[i].first_size = MathProduct(hist[i].in_shape) * arrays[i].width
        /\ (hist[i].has_size /\ hist[i].has_numel) =>
              hist[i].first_size = hist[i].first_numel * arrays[i].width
    /\ ret.op = "size" => ret.ok /\ ret.out_int = MathProduct(ret.shape) * ret.width

\* C6: fill(v, S) with a zero extent anywhere in S returns an empty tensor,
\* whatever the other extents are: numel() = 0, size() = 0 and shape() = S.
C6_ZeroExtentNeverFails ==
    /\ (ret.op = "fill" /\ HasZero(ret.shape)) =>
            ret.ok /\ arrays[ret.idx].data = <<>>
    /\ (ret.op \in Accessors /\ HasZero(ret.shape)) => ret.ok
    /\ \A i \in Live :
        (hist[i].op = "fill" /\ HasZero(hist[i].in_shape)) =>
            /\ arrays[i].data = <<>>
            /\ hist[i].has_numel => hist[i].first_numel = 0
            /\ hist[i].has_size => hist[i].first_size = 0
            /\ hist[i].has_shape => hist[i].first_shape = hist[i].in_shape

\* C7: a factory call whose product of extents does not fit the machine word
\* never returns a tensor.
C7_OverflowIsFatal ==
    (ret.op \in Factories /\ MathProduct(ret.shape) >= Word) => ~ret.ok

\* an accessor call leaves every tensor as it was
AccessorFrame == (ret'.op \in Accessors /\ ret'.ok) => arrays' = arrays

\* each accessor answers as on its first call, and the answers agree:
\* size() = numel() * byte width and numel() = product(shape())
AccessorsConsistent ==
    /\ Answered("shape") => ret.out_shape = hist[ret.idx].first_shape
    /\ Answered("numel") => ret.out_int = hist[ret.idx].first_numel
    /\ Answered("size") => ret.out_int = hist[ret.idx].first_size
    /\ ret.op \in Accessors => ret.ok
    /\ \A i \in Live :
        /\ (hist[i].has_size /\ hist[i].has_numel) =>
              hist[i].first_size = hist[i].first_numel * arrays[i].width
        /\ (hist[i].has_numel /\ hist[i].has_shape) =>
              hist[i].first_numel = MathProduct(hist[i].first_shape)

\* C8: shape(), numel() and size() change no tensor, the one read or any
\* other, return what they returned on their first call, and agree with each
\* other: size() = numel() * byte width, numel() = product(shape()).
C8_AccessorsPure == [][AccessorFrame]_vars /\ []AccessorsConsistent

\* C9: fill(v, []) always returns a tensor of exactly one element v, with
\* numel() = 1, shape() = [] and size() = the byte width of one element.
C9_EmptyShape ==
    /\ (ret.op = "fill" /\ ret.shape = <<>>) =>
            ret.ok /\ arrays[ret.idx].data = <<ret.value>>
    /\ (ret.op \in Accessors /\ ret.shape = <<>>) => ret.ok
    /\ \A i \in Live :
        (hist[i].op = "fill" /\ hist[i].in_shape = <<>>) =>
            /\ arrays[i].data = <<hist[i].value>>
            /\ hist[i].has_numel => hist[i].first_numel = 1
            /\ hist[i].has_shape => hist[i].first_shape = <<>>
            /\ hist[i].has_size => hist[i].first_size = arrays[i].width

\* all three accessors were called on fill(5, []), size() last
C9_Witness ==
    /\ Answered("size")
    /\ hist[ret.idx].op = "fill"
    /\ hist[ret.idx].in_shape = <<>>
    /\ hist[ret.idx].value = 5
    /\ hist[ret.idx].has_numel
    /\ hist[ret.idx].has_shape

\* C10: on every tensor a factory returned, numel() * byte width stays within
\* the machine word, so size() neither panics nor wraps, and numel(),
\* recomputed from the stored shape, is the length of the allocated buffer.
C10_SizeFitsWord ==
    /\ \A i \in Live :
        /\ Len(arrays[i].data) * arrays[i].width <= IsizeMax
        /\ hist[i].has_numel => hist[i].first_numel = Len(arrays[i].data)
        /\ hist[i].has_size =>
              hist[i].first_size = Len(arrays[i].data) * arrays[i].width
    /\ ret.op \in {"numel", "size"} => ret.ok
    /\ Answered("numel") => ret.out_int = Len(arrays[ret.idx].data)
    /\ Answered("size") =>
          ret.out_int = Len(arrays[ret.idx].data) * arrays[ret.idx].width

\* size() answered on a non-empty tensor whose product of extents wrapped
C10_Witness ==
    /\ Answered("size")
    /\ ret.out_int > 0
    /\ MathProduct(ret.shape) >= Word
    /\ hist[ret.idx].has_numel

(* ---------------- what holds next to the refuted properties ---------------- *)

\* whenever the product of the requested extents fits the machine word, a
\* returned tensor has exactly that many elements, all equal to the fill
\* value, and numel() and size() report that product
WithinWordAgree ==
    \A i \in Live :
        MathProduct(hist[i].in_shape) < Word =>
            /\ Len(arrays[i].data) = MathProduct(hist[i].in_shape)
            /\ Sum(arrays[i].data) = hist[i].value * MathProduct(hist[i].in_shape)
            /\ hist[i].has_numel => hist[i].first_numel = MathProduct(hist[i].in_shape)
            /\ hist[i].has_size =>
                  hist[i].first_size = MathProduct(hist[i].in_shape) * arrays[i].width

\* zeros and ones return what fill returns on the two identities
ZerosOnesRefineFill ==
    /\ (ret.op = "zeros" /\ ret.ok) => arrays[ret.idx] = fill(0, ret.shape, ret.width).val
    /\ (ret.op = "ones" /\ ret.ok) => arrays[ret.idx] = fill(1, ret.shape, ret.width).val

\* with overflow checks every overflowing product is fatal
CheckedOverflowIsFatal ==
    (overflow_checks /\ ret.op \in Factories /\ MathProduct(ret.shape) >= Word) => ~ret.ok

\* without overflow checks a zero extent never fails
WrappingZeroExtentReturns ==
    (~overflow_checks /\ ret.op \in Factories /\ HasZero(ret.shape)) => ret.ok

\* no accessor call changes a tensor, and repeated calls repeat their answer
AccessorsFrameHolds ==
    [][AccessorFrame]_vars
    /\ [](/\ Answered("shape") => ret.out_shape = hist[ret.idx].first_shape
          /\ Answered("numel") => ret.out_int = hist[ret.idx].first_numel
          /\ Answered("size") => ret.out_int = hist[ret.idx].first_size)

====
